---- MODULE Spec2Model ----
(***************************************************************************)
(* A model of the manifest builder of 3dtiles2kmz: build_manifest and the  *)
(* _TileWalker generator of src/tileset_manifest.py, with the helpers they *)
(* call.  A run loads the root tile document, walks the tile trees of the  *)
(* root document and of every referenced document with an explicit stack,  *)
(* collects one record per .b3dm URI of each leaf tile, derives the origin *)
(* from the root tile and writes the manifest.                             *)
(*                                                                         *)
(* Numbers are exact integers: the float64 arithmetic of numpy is exact on *)
(* the small integer matrices used here.  The trigonometric conversions of *)
(* src/geo.py are kept as tagged, uninterpreted terms.                     *)
(***************************************************************************)
EXTENDS Integers, Sequences, FiniteSets, TLC

VARIABLES
    tileChildren,      \* input: tile -> the JSON value of its "children" field
    tileTransform,     \* input: tile -> the JSON value of its "transform" field
    tileContent,       \* input: tile -> its "content" object (<<>> when absent, else <<uri>>)
    tileContents,      \* input: tile -> the URIs of its "contents" list
    docShape,          \* input: root tile of a document -> what the file of the document holds
    pc,                \* where the run is: "load", "pop", "body", "resume", "done", "error"
    err,               \* the exception that ended the run ("none" while it runs)
    errAt,             \* history: the step that raised it ("none" while it runs)
    stack,             \* walk_tileset's local stack of frames
    cur,               \* the frame the generator last yielded (<<>> before the first)
    counter,           \* _TileWalker._counter
    queued_tilesets,   \* _TileWalker._queued_tilesets
    visited_tilesets,  \* _TileWalker._visited_tilesets
    tiles,             \* build_manifest's list of tile records
    root_full,         \* build_manifest's root_full (<<>> is None)
    boundingVolume,    \* input: the root tile's "boundingVolume", as _derive_origin reads it
    result,            \* the ManifestResult returned (<<>> when none was returned)
    written,           \* the manifests written to manifest.json, in order
    visits,            \* history: every tuple the walker yielded, in order
    loads,             \* history: every path the walker loaded, in order
    parked,            \* the locals of another call of build_manifest that is under way
                       \* (<<>> when there is one call only)
    mainRun,           \* the state of main around the call (<<>> when build_manifest
                       \* is called on its own)
    roundTrip,         \* a point taken through the conversions of src/geo.py and back
                       \* (<<>> when none is)
    cache              \* convert_manifest_tiles and the files it reads and writes
                       \* (<<>> when it is not called)

vars == <<tileChildren, tileTransform, tileContent, tileContents, docShape, pc, err, errAt, stack,
          cur, counter, queued_tilesets, visited_tilesets, tiles, root_full,
          boundingVolume, result, written, visits, loads, parked, mainRun,
          roundTrip, cache>>

\* what lies outside one call of build_manifest
callers == <<parked, mainRun, roundTrip, cache>>

inputs == <<tileChildren, tileTransform, tileContent, tileContents, docShape>>

(***************************************************************************)
(* Bounds of the model.                                                    *)
(***************************************************************************)
MaxTiles == 4       \* tile objects over all documents
MaxUris == 2        \* content URIs over all tiles
MaxTransforms == 2  \* tiles that carry a "transform" field

Tiles == 1..MaxTiles

(***************************************************************************)
(* JSON values, as far as the code looks into them.                        *)
(***************************************************************************)
NullV == [kind |-> "null", val |-> <<>>]
ListV(s) == [kind |-> "list", val |-> s]
NumV(n) == [kind |-> "num", val |-> <<n>>]
BoolV(b) == [kind |-> "bool", val |-> <<b>>]
StrV(x) == [kind |-> "str", val |-> x]

\* Python's truth value of a JSON value (`not x`, `x or []`).
Truthy(v) ==
    CASE v.kind = "null" -> FALSE
      [] v.kind = "list" -> Len(v.val) > 0
      [] v.kind = "num" -> v.val[1] # 0
      [] v.kind = "bool" -> v.val[1]
      [] v.kind = "str" -> Len(v.val) > 0
      [] OTHER -> TRUE

IsList(v) == v.kind = "list"

(***************************************************************************)
(* 4x4 matrices: a sequence of four rows.                                  *)
(***************************************************************************)
Dim == 1..4

Identity4 == [i \in Dim |-> [j \in Dim |-> IF i = j THEN 1 ELSE 0]]

\* the product with the factors in the other order: `b @ a`
MatMulSwapped(a, b) ==
    [i \in Dim |-> [j \in Dim |->
        b[i][1] * a[1][j] + b[i][2] * a[2][j] + b[i][3] * a[3][j] + b[i][4] * a[4][j]]]

\* numpy's `a @ b`
MatMul(a, b) ==
    [i \in Dim |-> [j \in Dim |->
        a[i][1] * b[1][j] + a[i][2] * b[2][j] + a[i][3] * b[3][j] + a[i][4] * b[4][j]]]

\* numpy's `m @ v` for a 4-vector
MatVec(m, v) ==
    [i \in Dim |-> m[i][1] * v[1] + m[i][2] * v[2] + m[i][3] * v[3] + m[i][4] * v[4]]

\* np.array(list).reshape((4, 4), order="F"): the list holds the columns
ReshapeF(l) == [i \in Dim |-> [j \in Dim |-> l[(j - 1) * 4 + i]]]

\* _matrix_from_tile: [ok, m]; ok is FALSE where the code raises ValueError
matrix_from_tile(transform) ==
    IF ~Truthy(transform) THEN [ok |-> TRUE, m |-> Identity4]
    ELSE IF IsList(transform) /\ Len(transform.val) = 16
         THEN [ok |-> TRUE, m |-> ReshapeF(transform.val)]
         ELSE [ok |-> FALSE, m |-> Identity4]

\* _matrix_to_column_major: matrix.reshape(16, order="F")
matrix_to_column_major(m) ==
    [k \in 1..16 |-> m[((k - 1) % 4) + 1][((k - 1) \div 4) + 1]]

\* _extract_translation: matrix[:3, 3]
extract_translation(m) == <<m[1][4], m[2][4], m[3][4]>>

(***************************************************************************)
(* Paths and URIs.  A directory is its depth in one chain of directories,  *)
(* a relative URI names a file `rel` levels below (above, when negative)   *)
(* the directory it is resolved against.                                   *)
(***************************************************************************)
\* _strip_query_fragment
strip_query_fragment(uri) == [uri EXCEPT !.query = FALSE]

\* _is_b3dm_uri
is_b3dm_uri(uri) == strip_query_fragment(uri).ext = "b3dm"

\* _is_tileset_uri
is_tileset_uri(uri) == strip_query_fragment(uri).ext = "json"

\* _resolve_content_path
resolve_content_path(base_dir, uri) ==
    LET normalized == strip_query_fragment(uri)
    IN  [dir |-> base_dir + normalized.rel, name |-> normalized.name,
         ext |-> normalized.ext]

\* the directory one level off
ParentDirOff(path) == path.dir + 1

\* Path.parent
ParentDir(path) == path.dir

(***************************************************************************)
(* The input: the tile documents and the payload files on disk.            *)
(* A tile is a number; a tile that no tile lists as a child is the root    *)
(* tile of a document of its own.  The document rooted at tile r is the    *)
(* file <DirOf(r)>/r.json; the root document is the one rooted at tile 1.  *)
(***************************************************************************)
DirOf(r) == r % 2

DocPath(r) == [dir |-> DirOf(r), name |-> r, ext |-> "json"]

\* tileset_path, the argument of build_manifest
RootPath == DocPath(1)

\* the tiles an entry list names (an entry that is no tile object is 0)
ChildTiles(t) ==
    IF IsList(tileChildren[t])
    THEN {tileChildren[t].val[i] : i \in 1..Len(tileChildren[t].val)} \ {0}
    ELSE {}

IsDocRoot(t) == \A p \in Tiles : t \notin ChildTiles(p)

\* a disk on which every path exists
FileExistsAlways(path) == TRUE

\* Path.exists() of a payload path: 1.b3dm and 2.b3dm exist in both directories
FileExists(path) == path.ext = "b3dm" /\ path.name \in {1, 2} /\ path.dir \in {0, 1}

\* what a file that holds a tile document may hold: a JSON object with a root
\* tile object, text that is not JSON, JSON that is not an object, an object
\* without a root tile object
DocShapes == {"object", "not_json", "not_object", "no_root"}

\* _load_tileset followed by .get("root") and the test of the root (lines
\* 32-34 and 138-140): err is the exception raised ("none" when the document
\* was read and has a root tile), root the root tile.  path.read_text raises
\* FileNotFoundError when there is no file, json.JSONDecodeError becomes
\* ValueError.
load_tileset(path) ==
    IF \E r \in Tiles : IsDocRoot(r) /\ DocPath(r) = path
    THEN LET r == CHOOSE x \in Tiles : IsDocRoot(x) /\ DocPath(x) = path
         IN  IF docShape[r] = "object" THEN [err |-> "none", root |-> r]
             ELSE [err |-> "ValueError", root |-> 0]
    ELSE [err |-> "FileNotFoundError", root |-> 0]

(***************************************************************************)
(* Tile identifiers: f"tile_{counter:06d}", kept as the digits after       *)
(* "tile_".                                                                *)
(***************************************************************************)
RECURSIVE Digits(_)
Digits(n) == IF n < 10 THEN <<n>> ELSE Append(Digits(n \div 10), n % 10)

ZeroPad(s, w) ==
    IF Len(s) >= w THEN s
    ELSE [i \in 1..w |-> IF i <= w - Len(s) THEN 0 ELSE s[i - (w - Len(s))]]

\* an identifier that does not depend on the counter
TileIdOfRoot(n) == ZeroPad(Digits(0), 6)

TileId(n) == ZeroPad(Digits(n), 6)

(***************************************************************************)
(* The helpers of build_manifest.                                          *)
(***************************************************************************)
\* _extract_content_uris: the URI of "content", then those of "contents"
extract_content_uris(t) == tileContent[t] \o tileContents[t]

\* a test that takes every tile for a leaf
is_leaf_tile_any(t) == TRUE

\* _is_leaf_tile
is_leaf_tile(t) ==
    \/ tileChildren[t].kind = "null"
    \/ IsList(tileChildren[t]) /\ Len(tileChildren[t].val) = 0

\* _TileWalker.queue_external_tileset; `pos` is history: the place of the URI
\* in the tile's URI list
queue_external_tileset(q, tileset_path, parent_transform, pos) ==
    IF tileset_path.ext # "json" THEN q
    ELSE Append(q, [path |-> tileset_path, parent_transform |-> parent_transform,
                    pos |-> pos])

\* the record build_manifest appends for one .b3dm URI; `node` is history:
\* the tile the record was made for (the code keeps its "boundingVolume")
TileRecord(c, b3dm_path) ==
    [tile_id |-> c.id,
     b3dm_path |-> b3dm_path,
     glb_path |-> [dir |-> "glb", name |-> c.id, ext |-> "glb"],
     transform_ecef |-> matrix_to_column_major(c.full),
     node |-> c.tile]

\* lines 47-65: the loop over the URIs of a leaf tile, from URI number i on
RECURSIVE ConsumeUris(_, _, _, _, _)
ConsumeUris(us, i, c, tl, q) ==
    IF i > Len(us) THEN [tiles |-> tl, queued |-> q, err |-> "none"]
    ELSE IF is_tileset_uri(us[i])
    THEN ConsumeUris(us, i + 1, c, tl,
             queue_external_tileset(q, resolve_content_path(c.base_dir, us[i]),
                                    c.full, i))
    ELSE IF ~is_b3dm_uri(us[i]) THEN ConsumeUris(us, i + 1, c, tl, q)
    ELSE IF ~FileExists(resolve_content_path(c.base_dir, us[i]))
    THEN [tiles |-> tl, queued |-> q, err |-> "ValueError"]
    ELSE ConsumeUris(us, i + 1, c,
             Append(tl, TileRecord(c, resolve_content_path(c.base_dir, us[i]))), q)

(***************************************************************************)
(* The helpers of walk_tileset.                                            *)
(***************************************************************************)
\* _TileWalker.__init__: the attributes of a new walker
walker_init == [counter |-> 0, queued_tilesets |-> <<>>, visited_tilesets |-> {}]

\* lines 119-131: push the children that are tile objects, last one first;
\* from entry number i down
RECURSIVE PushChildren(_, _, _, _, _, _)
PushChildren(entries, i, st, ctr, c, from) ==
    IF i < 1 THEN [stack |-> st, counter |-> ctr]
    ELSE IF entries[i] = 0 THEN PushChildren(entries, i - 1, st, ctr, c, from)
    ELSE PushChildren(entries, i - 1,
             Append(st, [id |-> TileId(ctr + 1), tile |-> entries[i],
                         parent_transform |-> c.full, base_dir |-> c.base_dir,
                         from |-> from, kind |-> "child", pos |-> i]),
             ctr + 1, c, from)

\* line 119: tile.get("children") or []
ChildrenOrEmpty(t) == IF Truthy(tileChildren[t]) THEN tileChildren[t] ELSE ListV(<<>>)

\* a walker that forgets the paths it loaded
MarkVisitedNever(visited, path) == visited

\* line 136: self._visited_tilesets.add(tileset_path)
MarkVisited(visited, path) == visited \cup {path}

\* a walker that takes no path for visited
IsVisitedNever(visited, path) == FALSE

\* line 134: tileset_path in self._visited_tilesets
IsVisited(visited, path) == path \in visited

\* a queue drained from its front
QueueFront(q) == 1

\* line 133: self._queued_tilesets.pop() takes the last element
QueuePop(q) == Len(q)

RemoveAt(q, k) == SubSeq(q, 1, k - 1) \o SubSeq(q, k + 1, Len(q))

\* a walker that leaves the queued references where they are
DrainNothing(q, st, ctr, visited, lds, from) ==
    [queued |-> q, stack |-> st, counter |-> ctr, visited |-> visited,
     loads |-> lds, err |-> "none"]

\* lines 132-150: drain the queued references
RECURSIVE DrainQueued(_, _, _, _, _, _)
DrainQueued(q, st, ctr, visited, lds, from) ==
    IF q = <<>>
    THEN [queued |-> q, stack |-> st, counter |-> ctr, visited |-> visited,
          loads |-> lds, err |-> "none"]
    ELSE LET item == q[QueuePop(q)]
             rest == RemoveAt(q, QueuePop(q))
             external == load_tileset(item.path)
         IN  IF IsVisited(visited, item.path)
             THEN DrainQueued(rest, st, ctr, visited, lds, from)
             ELSE IF external.err # "none"
             THEN [queued |-> rest, stack |-> st, counter |-> ctr,
                   visited |-> MarkVisited(visited, item.path),
                   loads |-> Append(lds, [path |-> item.path, from |-> from]),
                   err |-> external.err]
             ELSE DrainQueued(rest,
                      Append(st, [id |-> TileId(ctr + 1), tile |-> external.root,
                                  parent_transform |-> item.parent_transform,
                                  base_dir |-> ParentDir(item.path),
                                  from |-> from, kind |-> "ref", pos |-> item.pos]),
                      ctr + 1, MarkVisited(visited, item.path),
                      Append(lds, [path |-> item.path, from |-> from]), from)

(***************************************************************************)
(* The origin.  A bounding volume is [isDict, region, sphere, box]: whether *)
(* "boundingVolume" is an object, and the JSON values of its three fields. *)
(* math.degrees and the conversions of src/geo.py are uninterpreted: a     *)
(* term that names the function and holds its argument.                    *)
(***************************************************************************)
\* (x + y) * 0.5, as the exact fraction
HalfSum(x, y) == [num |-> x + y, den |-> 2]

\* math.degrees
Degrees(x) == [fn |-> "degrees", arg |-> x]

\* geo.lla_degrees_to_ecef
lla_degrees_to_ecef(lla) == [fn |-> "lla_degrees_to_ecef", arg |-> lla]

\* geo.ecef_to_lla_degrees
ecef_to_lla_degrees(ecef) == [fn |-> "ecef_to_lla_degrees", arg |-> ecef]

\* lines 192-196 and 199-203: the center, moved by the root's transform
TransformedCenter(root_full_, l) ==
    LET ecef_center == MatVec(root_full_, <<l[1], l[2], l[3], 1>>)
    IN  <<ecef_center[1], ecef_center[2], ecef_center[3]>>

\* isinstance(x, list) and len(x) == n
ListOfLen(v, n) == IsList(v) /\ Len(v.val) = n

\* a derivation that prefers the sphere and knows neither region nor box
derive_origin_sphere_first(bv, root_full_) ==
    IF bv.isDict /\ ListOfLen(bv.sphere, 4)
    THEN [ecef |-> TransformedCenter(root_full_, bv.sphere.val),
          lla |-> ecef_to_lla_degrees(TransformedCenter(root_full_, bv.sphere.val)),
          strategy |-> "sphere"]
    ELSE [ecef |-> extract_translation(root_full_),
          lla |-> ecef_to_lla_degrees(extract_translation(root_full_)),
          strategy |-> "root"]

\* _derive_origin
derive_origin(bv, root_full_) ==
    IF bv.isDict /\ ListOfLen(bv.region, 6)
    THEN LET west == bv.region.val[1]
             south == bv.region.val[2]
             east == bv.region.val[3]
             north == bv.region.val[4]
             min_h == bv.region.val[5]
             lat == Degrees(HalfSum(south, north))
             lon == Degrees(HalfSum(west, east))
             origin_lla == <<lat, lon, min_h>>
         IN  [ecef |-> lla_degrees_to_ecef(origin_lla), lla |-> origin_lla,
              strategy |-> "region"]
    ELSE IF bv.isDict /\ ListOfLen(bv.sphere, 4)
    THEN [ecef |-> TransformedCenter(root_full_, bv.sphere.val),
          lla |-> ecef_to_lla_degrees(TransformedCenter(root_full_, bv.sphere.val)),
          strategy |-> "sphere"]
    ELSE IF bv.isDict /\ ListOfLen(bv.box, 12)
    THEN [ecef |-> TransformedCenter(root_full_, bv.box.val),
          lla |-> ecef_to_lla_degrees(TransformedCenter(root_full_, bv.box.val)),
          strategy |-> "box"]
    ELSE [ecef |-> extract_translation(root_full_),
          lla |-> ecef_to_lla_degrees(extract_translation(root_full_)),
          strategy |-> "root"]

\* lines 70-86: the manifest and the ManifestResult
ManifestOf(tl, origin) ==
    [tiles |-> tl,
     origin |-> [strategy |-> origin.strategy, ecef |-> origin.ecef, lla |-> origin.lla]]

ManifestResult(tl, origin) ==
    [manifest |-> ManifestOf(tl, origin), tile_count |-> Len(tl),
     root_ecef |-> origin.ecef]

(***************************************************************************)
(* The inputs a run starts from.                                           *)
(***************************************************************************)
\* a 16-number column-major list: a translation by (1, 2, 3)
TransformA == <<1, 0, 0, 0,  0, 1, 0, 0,  0, 0, 1, 0,  1, 2, 3, 1>>

\* a 16-number column-major list: a quarter turn about z, then a shift by (5, 0, 0)
TransformB == <<0, 1, 0, 0,  -1, 0, 0, 0,  0, 0, 1, 0,  5, 0, 0, 1>>

\* parent[t] = 0: t is the root tile of a document; else the tile that lists t
Forests ==
    {p \in [Tiles -> 0..MaxTiles] : p[1] = 0 /\ \A t \in Tiles : p[t] < t}

RECURSIVE SortedSeq(_)
SortedSeq(S) ==
    IF S = {} THEN <<>>
    ELSE LET m == CHOOSE x \in S : \A y \in S : x <= y
         IN  <<m>> \o SortedSeq(S \ {m})

\* a tile without children has no "children" field (odd tiles) or an empty
\* list (even tiles)
ChildrenValue(p, t) ==
    LET kids == {c \in Tiles : p[c] = t}
    IN  IF kids # {} THEN ListV(SortedSeq(kids))
        ELSE IF t % 2 = 0 THEN ListV(<<>>) ELSE NullV

RECURSIVE RootUnder(_, _)
RootUnder(p, t) == IF p[t] = 0 THEN t ELSE RootUnder(p, p[t])

\* the kinds of URI a tile may carry
UriKinds ==
    {[k |-> x, d |-> 0] : x \in {"b1", "b2", "missing", "png"}}
        \cup {[k |-> "ref", d |-> d] : d \in Tiles}

\* the URI of kind k written in a tile of the document rooted at r
UriOfKind(k, r) ==
    CASE k.k = "b1" -> [rel |-> 0, name |-> 1, ext |-> "b3dm", query |-> FALSE]
      [] k.k = "b2" -> [rel |-> 0, name |-> 2, ext |-> "b3dm", query |-> TRUE]
      [] k.k = "missing" -> [rel |-> 0, name |-> 3, ext |-> "b3dm", query |-> FALSE]
      [] k.k = "png" -> [rel |-> 0, name |-> 1, ext |-> "png", query |-> FALSE]
      [] k.k = "ref" -> [rel |-> DirOf(k.d) - DirOf(r), name |-> k.d, ext |-> "json",
                         query |-> FALSE]

UriSlots == Tiles \X UriKinds

\* the placements of at most MaxUris URIs, the tiles in non-decreasing order
UriPlacements ==
    UNION {{s \in [1..n -> UriSlots] : \A i \in 1..(n - 1) : s[i][1] <= s[i + 1][1]} :
           n \in 0..MaxUris}

RECURSIVE UrisOfTile(_, _, _, _)
UrisOfTile(s, i, t, r) ==
    IF i > Len(s) THEN <<>>
    ELSE IF s[i][1] = t THEN <<UriOfKind(s[i][2], r)>> \o UrisOfTile(s, i + 1, t, r)
    ELSE UrisOfTile(s, i + 1, t, r)

\* an odd tile carries its first URI in "content", an even tile carries all in
\* "contents"
ContentOf(us, t) == IF t % 2 = 1 /\ us # <<>> THEN <<us[1]>> ELSE <<>>

ContentsOf(us, t) == IF t % 2 = 1 /\ us # <<>> THEN Tail(us) ELSE us

TransformChoices ==
    {f \in [Tiles -> {"none", "a", "b"}] :
        Cardinality({t \in Tiles : f[t] # "none"}) <= MaxTransforms}

TransformValue(c) ==
    CASE c = "none" -> NullV
      [] c = "a" -> ListV(TransformA)
      [] c = "b" -> ListV(TransformB)

Volume(d, r, s, b) == [isDict |-> d, region |-> r, sphere |-> s, box |-> b]

\* the value of boundingVolume before _derive_origin has read it
UnreadVolume == Volume(FALSE, NullV, NullV, NullV)

\* a field of a bounding volume: absent, of the right length, of another length
RegionFields == {NullV, ListV(<<-4, -2, 6, 4, 10, 50>>), ListV(<<-4, -2, 6, 4>>)}

SphereFields == {NullV, ListV(<<7, 8, 9, 5>>), ListV(<<7, 8, 9>>)}

BoxFields ==
    {NullV, ListV(<<2, 4, 6, 1, 0, 0, 0, 1, 0, 0, 0, 1>>),
     ListV(<<2, 4, 6, 1, 0, 0, 0, 1, 0>>)}

BoundingVolumes ==
    {Volume(TRUE, r, s, b) : r \in RegionFields, s \in SphereFields, b \in BoxFields}
        \cup {UnreadVolume}

\* the bounding volumes of the root tile in a full run: one for each strategy
RootBoundingVolumes ==
    {UnreadVolume,
     Volume(TRUE, ListV(<<-4, -2, 6, 4, 10, 50>>), ListV(<<7, 8, 9, 5>>), NullV),
     Volume(TRUE, NullV, ListV(<<7, 8, 9, 5>>), NullV),
     Volume(TRUE, NullV, NullV, ListV(<<2, 4, 6, 1, 0, 0, 0, 1, 0, 0, 0, 1>>))}

\* the fields of the tiles: a forest, a placement of URIs out of P and a choice
\* of transforms out of F; transforms are varied on the inputs with at most one
\* URI
InputTiles(P, F) ==
    \E p \in Forests, s \in P :
        /\ tileChildren = [t \in Tiles |-> ChildrenValue(p, t)]
        /\ tileContent =
              [t \in Tiles |-> ContentOf(UrisOfTile(s, 1, t, RootUnder(p, t)), t)]
        /\ tileContents =
              [t \in Tiles |-> ContentsOf(UrisOfTile(s, 1, t, RootUnder(p, t)), t)]
        /\ \E f \in F :
              /\ Len(s) <= 1 \/ \A t \in Tiles : f[t] = "none"
              /\ tileTransform = [t \in Tiles |-> TransformValue(f[t])]
        /\ docShape = [t \in Tiles |-> "object"]

\* build_manifest has been called and has done nothing yet
Started ==
    /\ pc = "load"
    /\ err = "none"
    /\ errAt = "none"
    /\ stack = <<>>
    /\ cur = <<>>
    /\ counter = 0
    /\ queued_tilesets = <<>>
    /\ visited_tilesets = {}
    /\ tiles = <<>>
    /\ root_full = <<>>
    /\ boundingVolume = UnreadVolume
    /\ result = <<>>
    /\ written = <<>>
    /\ visits = <<>>
    /\ loads = <<>>

\* build_manifest is called once and on its own
OneCall == parked = <<>> /\ mainRun = <<>> /\ roundTrip = <<>> /\ cache = <<>>

Init == InputTiles(UriPlacements, TransformChoices) /\ Started /\ OneCall

\* the inputs whose URIs all are references to documents, without transforms
ReferencePlacements ==
    {s \in UriPlacements : \A i \in 1..Len(s) : s[i][2].k = "ref"}

NoTransforms == {[t \in Tiles |-> "none"]}

InitReferences == InputTiles(ReferencePlacements, NoTransforms) /\ Started /\ OneCall

(***************************************************************************)
(* Inputs of other shapes than the code expects: one field of one tile, or *)
(* the file of one document, holds something else.                         *)
(***************************************************************************)
\* values of "transform" that are no list of 16 numbers: the falsy ones, then
\* the truthy ones
OddTransforms ==
    {ListV(<<>>), NumV(0), BoolV(FALSE), StrV(<<>>),
     NumV(7), BoolV(TRUE), ListV(SubSeq(TransformA, 1, 15)), ListV(TransformA \o <<1>>)}

\* values of "children" of tile t that are no list of tile objects: values
\* that are no list, and the list of its children with an entry that is no
\* tile object (0) at its end or at its head
OddChildren(p, t) ==
    LET kids == SortedSeq({c \in Tiles : p[c] = t})
    IN  {NumV(0), BoolV(FALSE), NumV(7), StrV(<<1>>),
         ListV(Append(kids, 0)), ListV(<<0>> \o kids)}

\* the placements of at most one URI: a payload or a reference
ShapePlacements ==
    {s \in UriPlacements : Len(s) <= 1 /\ \A i \in 1..Len(s) : s[i][2].k \in {"b1", "ref"}}

\* which field is odd: none, or the transform, the children or the document of
\* one tile
OddFields == {[f |-> "none", t |-> 1]}
                 \cup {[f |-> x, t |-> t] : x \in {"transform", "children", "doc"}, t \in Tiles}

InputShapes ==
    \E p \in Forests, s \in ShapePlacements, o \in OddFields :
        /\ tileContent =
              [t \in Tiles |-> ContentOf(UrisOfTile(s, 1, t, RootUnder(p, t)), t)]
        /\ tileContents =
              [t \in Tiles |-> ContentsOf(UrisOfTile(s, 1, t, RootUnder(p, t)), t)]
        /\ \E x \in (IF o.f = "transform" THEN OddTransforms ELSE {NullV}) :
              tileTransform = [t \in Tiles |-> IF t = o.t THEN x ELSE NullV]
        /\ \E x \in (IF o.f = "children" THEN OddChildren(p, o.t)
                                          ELSE {ChildrenValue(p, o.t)}) :
              tileChildren = [t \in Tiles |-> IF t = o.t THEN x ELSE ChildrenValue(p, t)]
        /\ \E x \in (IF o.f = "doc" THEN DocShapes \ {"object"} ELSE {"object"}) :
              docShape = [t \in Tiles |-> IF t = o.t THEN x ELSE "object"]

InitShapes == InputShapes /\ Started /\ OneCall

(***************************************************************************)
(* The steps of a run.                                                     *)
(***************************************************************************)
\* a tile is visited at most twice, see Pop
MaxVisits == 2 * MaxTiles

\* an exception leaves build_manifest
Raise(e) == pc' = "error" /\ err' = e /\ errAt' = pc

\* lines 26-42 and 111-113: load the root document, make the walker, seed the stack
LoadRoot ==
    /\ pc = "load"
    /\ LET tileset == load_tileset(RootPath)
       IN  IF tileset.err # "none"
           THEN /\ Raise(tileset.err)
                /\ UNCHANGED <<stack, counter, queued_tilesets, visited_tilesets>>
           ELSE /\ counter' = walker_init.counter
                /\ queued_tilesets' = walker_init.queued_tilesets
                /\ visited_tilesets' = walker_init.visited_tilesets
                /\ stack' = <<[id |-> TileId(0), tile |-> tileset.root,
                               parent_transform |-> Identity4,
                               base_dir |-> ParentDir(RootPath),
                               from |-> 0, kind |-> "root", pos |-> 0]>>
                /\ pc' = "pop"
                /\ UNCHANGED <<err, errAt>>
    /\ UNCHANGED <<inputs, callers, cur, tiles, root_full, boundingVolume, result, written,
                   visits, loads>>

\* lines 114-118: pop a frame, compose its transform, yield it
Pop ==
    /\ pc = "pop"
    /\ stack # <<>>
    /\ Len(visits) < MaxVisits
    /\ LET f == stack[Len(stack)]
           local_transform == matrix_from_tile(tileTransform[f.tile])
           full_transform == MatMul(f.parent_transform, local_transform.m)
       IN  /\ stack' = SubSeq(stack, 1, Len(stack) - 1)
           /\ IF ~local_transform.ok
              THEN Raise("ValueError") /\ UNCHANGED <<cur, visits>>
              ELSE /\ cur' = [id |-> f.id, tile |-> f.tile, full |-> full_transform,
                              base_dir |-> f.base_dir]
                   /\ visits' = Append(visits,
                          [id |-> f.id, tile |-> f.tile, full |-> full_transform,
                           base_dir |-> f.base_dir, from |-> f.from, kind |-> f.kind,
                           pos |-> f.pos])
                   /\ pc' = "body"
                   /\ UNCHANGED <<err, errAt>>
    /\ UNCHANGED <<inputs, callers, counter, queued_tilesets, visited_tilesets, tiles, root_full,
                   boundingVolume, result, written, loads>>

\* lines 43-65: the body of build_manifest's loop for the tile yielded
Body ==
    /\ pc = "body"
    /\ root_full' = IF root_full = <<>> THEN cur.full ELSE root_full
    /\ IF ~is_leaf_tile(cur.tile)
       THEN /\ pc' = "resume"
            /\ UNCHANGED <<tiles, queued_tilesets, err, errAt>>
       ELSE LET r == ConsumeUris(extract_content_uris(cur.tile), 1, cur, tiles,
                                 queued_tilesets)
            IN  /\ tiles' = r.tiles
                /\ queued_tilesets' = r.queued
                /\ IF r.err # "none" THEN Raise(r.err)
                   ELSE pc' = "resume" /\ UNCHANGED <<err, errAt>>
    /\ UNCHANGED <<inputs, callers, stack, cur, counter, visited_tilesets, boundingVolume,
                   result, written, visits, loads>>

\* lines 119-150: push the children, then drain the queued references
Resume ==
    /\ pc = "resume"
    /\ LET children == ChildrenOrEmpty(cur.tile)
           pushed == IF IsList(children)
                     THEN PushChildren(children.val, Len(children.val), stack, counter,
                                       cur, Len(visits))
                     ELSE [stack |-> stack, counter |-> counter]
           drained == DrainQueued(queued_tilesets, pushed.stack, pushed.counter,
                                  visited_tilesets, loads, Len(visits))
       IN  /\ stack' = drained.stack
           /\ counter' = drained.counter
           /\ queued_tilesets' = drained.queued
           /\ visited_tilesets' = drained.visited
           /\ loads' = drained.loads
           /\ IF drained.err # "none" THEN Raise(drained.err)
              ELSE pc' = "pop" /\ UNCHANGED <<err, errAt>>
    /\ UNCHANGED <<inputs, callers, cur, tiles, root_full, boundingVolume, result, written,
                   visits>>

\* lines 67-86: the walker is exhausted: derive the origin, write and return
\* the manifest.  The root tile's bounding volume is read here, once.
Finish ==
    /\ pc = "pop"
    /\ stack = <<>>
    /\ IF root_full = <<>>
       THEN Raise("ValueError") /\ UNCHANGED <<boundingVolume, result, written>>
       ELSE \E bv \in RootBoundingVolumes :
               /\ boundingVolume' = bv
               /\ written' = Append(written, ManifestOf(tiles, derive_origin(bv, root_full)))
               /\ result' = ManifestResult(tiles, derive_origin(bv, root_full))
               /\ pc' = "done"
               /\ UNCHANGED <<err, errAt>>
    /\ UNCHANGED <<inputs, callers, stack, cur, counter, queued_tilesets, visited_tilesets, tiles,
                   root_full, visits, loads>>

Next == LoadRoot \/ Pop \/ Body \/ Resume \/ Finish

Spec == Init /\ [][Next]_vars

\* the runs over the inputs of other shapes
SpecShapes == InitShapes /\ [][Next]_vars

(***************************************************************************)
(* _derive_origin on its own: every bounding volume under several root     *)
(* transforms.                                                             *)
(***************************************************************************)
OriginTransforms ==
    {Identity4, ReshapeF(TransformA), ReshapeF(TransformB),
     MatMul(ReshapeF(TransformA), ReshapeF(TransformB)),
     MatMul(ReshapeF(TransformB), ReshapeF(TransformA))}

InitOrigin ==
    /\ tileChildren = [t \in Tiles |-> NullV]
    /\ tileTransform = [t \in Tiles |-> NullV]
    /\ tileContent = [t \in Tiles |-> <<>>]
    /\ tileContents = [t \in Tiles |-> <<>>]
    /\ docShape = [t \in Tiles |-> "object"]
    /\ pc = "origin"
    /\ err = "none"
    /\ errAt = "none"
    /\ stack = <<>>
    /\ cur = <<>>
    /\ counter = 0
    /\ queued_tilesets = <<>>
    /\ visited_tilesets = {}
    /\ tiles = <<>>
    /\ root_full \in OriginTransforms
    /\ boundingVolume \in BoundingVolumes
    /\ result = <<>>
    /\ written = <<>>
    /\ visits = <<>>
    /\ loads = <<>>
    /\ parked = <<>>
    /\ mainRun = <<>>
    /\ roundTrip = <<>>
    /\ cache = <<>>

\* line 70: origin_ecef, origin_lla, origin_strategy = _derive_origin(root_tile, root_full)
DeriveOrigin ==
    /\ pc = "origin"
    /\ result' = ManifestResult(tiles, derive_origin(boundingVolume, root_full))
    /\ pc' = "done"
    /\ UNCHANGED <<inputs, callers, err, errAt, stack, cur, counter, queued_tilesets,
                   visited_tilesets, tiles, root_full, boundingVolume, written, visits,
                   loads>>

SpecOrigin == InitOrigin /\ [][DeriveOrigin]_vars

(***************************************************************************)
(* Two calls of build_manifest over the same documents, one after the      *)
(* other or interleaved at the yields of the walker.  The variables hold   *)
(* the locals of the call that runs, `parked` those of the other call.     *)
(***************************************************************************)
\* the locals of the call that runs; `overlapped` is history: the two calls
\* have been under way at the same time
Locals(overlapped) ==
    [pc |-> pc, err |-> err, errAt |-> errAt, stack |-> stack, cur |-> cur,
     walker |-> [counter |-> counter, queued_tilesets |-> queued_tilesets,
                 visited_tilesets |-> visited_tilesets],
     tiles |-> tiles, root_full |-> root_full, boundingVolume |-> boundingVolume,
     result |-> result, visits |-> visits, loads |-> loads, overlapped |-> overlapped]

\* the locals of a call that has done nothing yet
NotStarted ==
    [pc |-> "load", err |-> "none", errAt |-> "none", stack |-> <<>>, cur |-> <<>>,
     walker |-> walker_init,
     tiles |-> <<>>, root_full |-> <<>>, boundingVolume |-> UnreadVolume,
     result |-> <<>>, visits |-> <<>>, loads |-> <<>>, overlapped |-> FALSE]

\* a walker whose attributes are those of the class: the walker a call finds
\* is the one the other call left
walker_of_class(own, running) == running

\* line 37 and lines 100-103: the walker is a local of the call and its
\* attributes are those of the instance: the walker a call finds when it goes
\* on is its own, whatever the call that ran in between did to its walker
walker_of(own, running) == own

UnderWay(at) == at \in {"pop", "body", "resume"}

\* the other call goes on
Switch ==
    /\ parked # <<>>
    /\ parked' = Locals(parked.overlapped \/ (UnderWay(pc) /\ UnderWay(parked.pc)))
    /\ pc' = parked.pc
    /\ err' = parked.err
    /\ errAt' = parked.errAt
    /\ stack' = parked.stack
    /\ cur' = parked.cur
    /\ counter' = walker_of(parked.walker, Locals(FALSE).walker).counter
    /\ queued_tilesets' = walker_of(parked.walker, Locals(FALSE).walker).queued_tilesets
    /\ visited_tilesets' = walker_of(parked.walker, Locals(FALSE).walker).visited_tilesets
    /\ tiles' = parked.tiles
    /\ root_full' = parked.root_full
    /\ boundingVolume' = parked.boundingVolume
    /\ result' = parked.result
    /\ visits' = parked.visits
    /\ loads' = parked.loads
    /\ UNCHANGED <<inputs, written, mainRun, roundTrip, cache>>

\* the placements of at most one URI, and those of a reference and a payload
TwoCallPlacements ==
    ShapePlacements
        \cup {s \in UriPlacements :
                 Len(s) = 2 /\ {s[1][2].k, s[2][2].k} = {"ref", "b1"}}

InitTwoCalls ==
    /\ InputTiles(TwoCallPlacements, NoTransforms)
    /\ Started
    /\ parked = NotStarted
    /\ mainRun = <<>>
    /\ roundTrip = <<>>
    /\ cache = <<>>

NextTwoCalls == LoadRoot \/ Pop \/ Body \/ Resume \/ Finish \/ Switch

SpecTwoCalls == InitTwoCalls /\ [][NextTwoCalls]_vars

(***************************************************************************)
(* main of src/3dtiles2kmz.py around the call of build_manifest.  mainRun  *)
(* is [at, started, failed, warned, temp_dir, returned]: the phase main is *)
(* at, the phases started and the phases that raised, in order, whether    *)
(* the warning of the quality check was logged, the state of the temporary *)
(* directory of the run, and the exit code returned (<<>> while there is   *)
(* none).  A phase other than build_manifest is its outcomes: it returns   *)
(* or raises one of the exceptions it can raise.                           *)
(***************************************************************************)
SUCCESS == 0
INVALID_INPUT == 2
EXTERNAL_TOOL_FAILURE == 3
PACKAGING_FAILURE == 4

\* the exceptions a phase can raise: those of its raise statements, and for
\* qc_dae the xml.etree.ElementTree.ParseError of ET.parse and the SyntaxError
\* of findall with a prefix that is not mapped (ParseError is a SyntaxError)
Raises(phase) ==
    CASE phase = "setup" -> {"ValueError"}
      [] phase = "convert_manifest_tiles" -> {"ValueError", "RuntimeError", "FileNotFoundError"}
      [] phase = "export_collada" -> {"ValueError", "RuntimeError", "FileNotFoundError"}
      [] phase = "qc_dae" -> {"FileNotFoundError", "SyntaxError"}
      [] phase = "write_kml" -> {"ValueError"}
      [] phase = "package_kmz" -> {"FileNotFoundError"}

\* the except clauses of main: what main does with exception e of a phase:
\* "return" with the exit code, "warn" where it logs a warning and goes on,
\* "uncaught" where no clause matches
Handler(phase, e) ==
    CASE phase \in {"setup", "build_manifest", "write_kml"} ->
             IF e = "ValueError" THEN [do |-> "return", code |-> INVALID_INPUT]
             ELSE [do |-> "uncaught", code |-> 0]
      [] phase \in {"convert_manifest_tiles", "export_collada"} ->
             IF e = "ValueError" THEN [do |-> "return", code |-> INVALID_INPUT]
             ELSE IF e \in {"RuntimeError", "FileNotFoundError"}
                  THEN [do |-> "return", code |-> EXTERNAL_TOOL_FAILURE]
                  ELSE [do |-> "uncaught", code |-> 0]
      [] phase = "qc_dae" ->
             IF e \in {"ValueError", "FileNotFoundError", "RuntimeError"}
             THEN [do |-> "warn", code |-> 0]
             ELSE [do |-> "uncaught", code |-> 0]
      [] phase = "package_kmz" ->
             IF e \in {"FileNotFoundError", "ValueError", "RuntimeError"}
             THEN [do |-> "return", code |-> PACKAGING_FAILURE]
             ELSE [do |-> "uncaught", code |-> 0]

\* the locals of build_manifest but pc
manifestLocals == <<err, errAt, stack, cur, counter, queued_tilesets, visited_tilesets,
                    tiles, root_full, boundingVolume, result, written, visits, loads>>

\* mainRun m after phase `phase` raised e: main logs a warning and goes on
\* with `next`, returns a code, or the exception leaves main
Raised(m, phase, e, next) ==
    LET h == Handler(phase, e)
    IN  [m EXCEPT !.failed = Append(@, phase),
                  !.warned = @ \/ h.do = "warn",
                  !.at = CASE h.do = "warn" -> next
                           [] h.do = "return" -> "returned"
                           [] OTHER -> "raised",
                  !.returned = IF h.do = "return" THEN <<h.code>> ELSE <<>>]

\* mainRun m after main has called phase `phase`
Called(m, phase) == [m EXCEPT !.started = Append(@, phase)]

\* lines 143-154: the arguments, the paths and the workspace; then lines
\* 155-160, the call of build_manifest
Setup ==
    /\ mainRun # <<>>
    /\ mainRun.at = "setup"
    /\ \/ /\ \E e \in Raises("setup") : mainRun' = Raised(mainRun, "setup", e, "setup")
          /\ UNCHANGED pc
       \/ /\ mainRun' = [Called(mainRun, "build_manifest") EXCEPT
                             !.at = "build_manifest", !.temp_dir = "made"]
          /\ pc' = "load"
    /\ UNCHANGED <<inputs, manifestLocals, parked, roundTrip, cache>>

\* lines 161-166: build_manifest has returned or raised
AfterManifest ==
    /\ mainRun # <<>>
    /\ mainRun.at = "build_manifest"
    /\ pc \in {"done", "error"}
    /\ mainRun' = IF pc = "error"
                  THEN Raised(mainRun, "build_manifest", err, "build_manifest")
                  ELSE [mainRun EXCEPT !.at = "convert_manifest_tiles"]
    /\ UNCHANGED <<inputs, pc, manifestLocals, parked, roundTrip, cache>>

\* lines 167-176
ConvertManifestTiles ==
    /\ mainRun # <<>>
    /\ mainRun.at = "convert_manifest_tiles"
    /\ \/ \E e \in Raises("convert_manifest_tiles") :
             mainRun' = Raised(Called(mainRun, "convert_manifest_tiles"),
                               "convert_manifest_tiles", e, "export_collada")
       \/ mainRun' = [Called(mainRun, "convert_manifest_tiles") EXCEPT
                         !.at = "export_collada"]
    /\ UNCHANGED <<inputs, pc, manifestLocals, parked, roundTrip, cache>>

\* lines 178-191
ExportCollada ==
    /\ mainRun # <<>>
    /\ mainRun.at = "export_collada"
    /\ \/ \E e \in Raises("export_collada") :
             mainRun' = Raised(Called(mainRun, "export_collada"),
                               "export_collada", e, "qc_dae")
       \/ mainRun' = [Called(mainRun, "export_collada") EXCEPT !.at = "qc_dae"]
    /\ UNCHANGED <<inputs, pc, manifestLocals, parked, roundTrip, cache>>

\* lines 193-197: the quality check: the exceptions of the except clause are
\* logged as a warning, any other leaves main
QcDae ==
    /\ mainRun # <<>>
    /\ mainRun.at = "qc_dae"
    /\ \/ \E e \in Raises("qc_dae") :
             mainRun' = Raised(Called(mainRun, "qc_dae"), "qc_dae", e, "write_kml")
       \/ mainRun' = [Called(mainRun, "qc_dae") EXCEPT !.at = "write_kml"]
    /\ UNCHANGED <<inputs, pc, manifestLocals, parked, roundTrip, cache>>

\* lines 199-216
WriteKml ==
    /\ mainRun # <<>>
    /\ mainRun.at = "write_kml"
    /\ \/ \E e \in Raises("write_kml") :
             mainRun' = Raised(Called(mainRun, "write_kml"), "write_kml", e, "package_kmz")
       \/ mainRun' = [Called(mainRun, "write_kml") EXCEPT !.at = "package_kmz"]
    /\ UNCHANGED <<inputs, pc, manifestLocals, parked, roundTrip, cache>>

\* lines 218-228
PackageKmz ==
    /\ mainRun # <<>>
    /\ mainRun.at = "package_kmz"
    /\ \/ \E e \in Raises("package_kmz") :
             mainRun' = Raised(Called(mainRun, "package_kmz"), "package_kmz", e, "cleanup")
       \/ mainRun' = [Called(mainRun, "package_kmz") EXCEPT !.at = "cleanup"]
    /\ UNCHANGED <<inputs, pc, manifestLocals, parked, roundTrip, cache>>

\* lines 230-233: remove the temporary directory and return SUCCESS
Cleanup ==
    /\ mainRun # <<>>
    /\ mainRun.at = "cleanup"
    /\ mainRun' = [mainRun EXCEPT !.temp_dir = "removed", !.at = "returned",
                                  !.returned = <<SUCCESS>>]
    /\ UNCHANGED <<inputs, pc, manifestLocals, parked, roundTrip, cache>>

\* main has been called and has done nothing yet
MainStarted ==
    [at |-> "setup", started |-> <<>>, failed |-> <<>>, warned |-> FALSE,
     temp_dir |-> "none", returned |-> <<>>]

InitMain ==
    /\ InputTiles(ShapePlacements, NoTransforms)
    /\ pc = "uncalled"
    /\ err = "none"
    /\ errAt = "none"
    /\ stack = <<>>
    /\ cur = <<>>
    /\ counter = 0
    /\ queued_tilesets = <<>>
    /\ visited_tilesets = {}
    /\ tiles = <<>>
    /\ root_full = <<>>
    /\ boundingVolume = UnreadVolume
    /\ result = <<>>
    /\ written = <<>>
    /\ visits = <<>>
    /\ loads = <<>>
    /\ parked = <<>>
    /\ roundTrip = <<>>
    /\ cache = <<>>
    /\ mainRun = MainStarted

NextMain ==
    \/ Setup
    \/ LoadRoot \/ Pop \/ Body \/ Resume \/ Finish
    \/ AfterManifest
    \/ ConvertManifestTiles
    \/ ExportCollada
    \/ QcDae
    \/ WriteKml
    \/ PackageKmz
    \/ Cleanup

SpecMain == InitMain /\ [][NextMain]_vars

(***************************************************************************)
(* The conversions of src/geo.py on the polar axis, x = y = 0, where the   *)
(* values of the trigonometric functions are known.  Lengths are whole     *)
(* centimetres, angles whole degrees.                                      *)
(***************************************************************************)
\* b = a * (1.0 - f) = 6356752.314245 m
PolarRadius == 635675231

\* n = a / math.sqrt(1.0 - e2 * sin_lat * sin_lat) where sin_lat is 1.0 or -1.0:
\* 6399593.625758 m
PolarCurvature == 639959363

\* the heights of the points taken: from 500 m below the ellipsoid up to
\* MaxHeight hectometres above it
MaxHeight == 90

AxisHeights == {10000 * k : k \in (0 - 5)..MaxHeight}

AxisPoints == {<<0, 0, sgn * (PolarRadius + h)>> : sgn \in {0 - 1, 1}, h \in AxisHeights}

Sign(x) == IF x > 0 THEN 1 ELSE IF x < 0 THEN 0 - 1 ELSE 0

\* ecef_to_lla_degrees for x = y = 0 and z # 0:
\*   p = math.hypot(0, 0) = 0.0, lon = 0.0;
\*   theta = atan2(z * a, 0.0) is a quarter turn with the sign of z, its sine
\*   is 1.0 or -1.0 and its cosine is 6.1e-17;
\*   lat = atan2(z + ep2 * b * sin_theta**3, 0.0 - e2 * a * cos_theta**3) is the
\*   float of a quarter turn with the sign of z: 90 or -90 degrees;
\*   alt = p / math.cos(lat) - n, where p is 0.0 and math.cos(lat) is 6.1e-17,
\*   not zero: the quotient is 0.0 and alt is -n, whatever z is
ecef_to_lla_degrees_on_axis(ecef) ==
    LET z == ecef[3]
        p == 0
        lat == 90 * Sign(z)
        lon == 0
        n == PolarCurvature
        alt == p - n
    IN  <<lat, lon, alt>>

\* lla_degrees_to_ecef for a latitude of 90 or -90 degrees and longitude 0:
\*   sin_lat is 1.0 or -1.0, cos_lat is 6.1e-17, sin_lon is 0.0, cos_lon 1.0;
\*   x = (n + alt) * cos_lat * cos_lon is below 1e-7 cm: 0 in whole centimetres;
\*   y = (n + alt) * cos_lat * sin_lon = 0.0;
\*   z = (n * (1.0 - e2) + alt) * sin_lat, where n * (1.0 - e2) is b
lla_degrees_to_ecef_on_axis(lla) ==
    LET sin_lat == lla[1] \div 90
        alt == lla[3]
        x == 0
        y == 0
        z == (PolarRadius + alt) * sin_lat
    IN  <<x, y, z>>

InitGeodesy ==
    /\ tileChildren = [t \in Tiles |-> NullV]
    /\ tileTransform = [t \in Tiles |-> NullV]
    /\ tileContent = [t \in Tiles |-> <<>>]
    /\ tileContents = [t \in Tiles |-> <<>>]
    /\ docShape = [t \in Tiles |-> "object"]
    /\ pc = "geodesy"
    /\ err = "none"
    /\ errAt = "none"
    /\ stack = <<>>
    /\ cur = <<>>
    /\ counter = 0
    /\ queued_tilesets = <<>>
    /\ visited_tilesets = {}
    /\ tiles = <<>>
    /\ root_full = <<>>
    /\ boundingVolume = UnreadVolume
    /\ result = <<>>
    /\ written = <<>>
    /\ visits = <<>>
    /\ loads = <<>>
    /\ parked = <<>>
    /\ mainRun = <<>>
    /\ roundTrip \in {[ecef |-> q, lla |-> <<>>, back |-> <<>>] : q \in AxisPoints}
    /\ cache = <<>>

\* lla = ecef_to_lla_degrees(ecef)
ToGeodetic ==
    /\ pc = "geodesy"
    /\ roundTrip.lla = <<>>
    /\ roundTrip' = [roundTrip EXCEPT !.lla = ecef_to_lla_degrees_on_axis(roundTrip.ecef)]
    /\ UNCHANGED <<inputs, pc, err, errAt, stack, cur, counter, queued_tilesets,
                   visited_tilesets, tiles, root_full, boundingVolume, result, written,
                   visits, loads, parked, mainRun, cache>>

\* back = lla_degrees_to_ecef(lla)
ToEcef ==
    /\ pc = "geodesy"
    /\ roundTrip.lla # <<>>
    /\ roundTrip.back = <<>>
    /\ roundTrip' = [roundTrip EXCEPT !.back = lla_degrees_to_ecef_on_axis(roundTrip.lla)]
    /\ UNCHANGED <<inputs, pc, err, errAt, stack, cur, counter, queued_tilesets,
                   visited_tilesets, tiles, root_full, boundingVolume, result, written,
                   visits, loads, parked, mainRun, cache>>

NextGeodesy == ToGeodetic \/ ToEcef

SpecGeodesy == InitGeodesy /\ [][NextGeodesy]_vars

(***************************************************************************)
(* convert_manifest_tiles of src/b3dm_to_glb.py, called with the manifest  *)
(* build_manifest returned.  cache is [at, i, sha, hashes, glb, converted, *)
(* skipped, err, log]: where the call is ("uncalled", "loop", "returned",  *)
(* "raised"), the number of the record the loop is at, the SHA-256 digest  *)
(* of every payload file, the hash file of every tile_id (<<>> when there  *)
(* is none, <<text>> otherwise), whether the file of every glb_path        *)
(* exists, the two counts, the exception raised, and the history of what   *)
(* the loop did.  The files of the cache directory are what an earlier run *)
(* left: they are read when the call begins.  The records build_manifest   *)
(* makes have the three strings _require_str asks for.                     *)
(***************************************************************************)
\* the digests of the payload files: two files hold the same bytes or not
Digests == {"d1", "d2"}

\* the text of a hash file: a digest, with or without white space around it
HashTexts == {[hex |-> d, padded |-> w] : d \in Digests, w \in BOOLEAN}

\* str.strip
strip(text) == [text EXCEPT !.padded = FALSE]

\* hashlib's hexdigest: the digest, no white space
hexdigest(d) == [hex |-> d, padded |-> FALSE]

\* _hash_file
hash_file(sha, path) == hexdigest(sha[path])

\* _is_cache_valid: the hash file of a tile is named after its tile_id
is_cache_valid(glb, hashes, glb_path, hash_path, current_hash) ==
    IF ~glb[glb_path] \/ hashes[hash_path] = <<>> THEN FALSE
    ELSE LET cached_hash == strip(hashes[hash_path][1])
         IN  cached_hash = current_hash

\* _run_b3dm_to_glb: the converter exits with 0, or with another code
\* (RuntimeError), or npx cannot be started (FileNotFoundError of
\* subprocess.run)
ConverterOutcomes == {"ok", "RuntimeError", "FileNotFoundError"}

\* convert_manifest_tiles has not been called
NotConverted ==
    [at |-> "uncalled", i |-> 0, sha |-> <<>>, hashes |-> <<>>, glb |-> <<>>,
     converted |-> 0, skipped |-> 0, err |-> "none", log |-> <<>>]

\* the fields `key` of the records of a manifest
FieldsOf(tl, key) == {tl[k][key] : k \in 1..Len(tl)}

\* lines 18-26: the test of the manifest; the files are as an earlier run left
\* them
ConvertCall ==
    /\ cache # <<>>
    /\ cache.at = "uncalled"
    /\ pc = "done"
    /\ LET tl == result.manifest.tiles
       IN  IF tl = <<>>
           THEN cache' = [cache EXCEPT !.at = "raised", !.err = "ValueError"]
           ELSE \E sha \in [FieldsOf(tl, "b3dm_path") -> Digests],
                   hashes \in [FieldsOf(tl, "tile_id") ->
                                  {<<>>} \cup {<<x>> : x \in HashTexts}],
                   glb \in [FieldsOf(tl, "glb_path") -> BOOLEAN] :
                    cache' = [cache EXCEPT !.at = "loop", !.i = 1, !.sha = sha,
                                           !.hashes = hashes, !.glb = glb]
    /\ UNCHANGED <<inputs, pc, manifestLocals, parked, mainRun, roundTrip>>

\* lines 28-45: the body of the loop for record number cache.i
ConvertTile ==
    /\ cache # <<>>
    /\ cache.at = "loop"
    /\ cache.i <= Len(result.manifest.tiles)
    /\ LET tile == result.manifest.tiles[cache.i]
           tile_id == tile.tile_id
           b3dm_path == tile.b3dm_path
           glb_path == tile.glb_path
           hash_path == tile_id
       IN  IF ~FileExists(b3dm_path)
           THEN cache' = [cache EXCEPT !.at = "raised", !.err = "ValueError"]
           ELSE LET current_hash == hash_file(cache.sha, b3dm_path)
                IN  IF is_cache_valid(cache.glb, cache.hashes, glb_path, hash_path,
                                      current_hash)
                    THEN cache' = [cache EXCEPT
                             !.skipped = @ + 1,
                             !.i = @ + 1,
                             !.log = Append(@, [op |-> "skip", i |-> cache.i,
                                                glb |-> cache.glb[glb_path],
                                                stored |-> cache.hashes[hash_path],
                                                current |-> current_hash])]
                    ELSE \E outcome \in ConverterOutcomes :
                            IF outcome # "ok"
                            THEN cache' = [cache EXCEPT
                                     !.at = "raised",
                                     !.err = outcome,
                                     !.log = Append(@, [op |-> "failed", i |-> cache.i])]
                            ELSE cache' = [cache EXCEPT
                                     !.glb[glb_path] = TRUE,
                                     !.hashes[hash_path] = <<current_hash>>,
                                     !.converted = @ + 1,
                                     !.i = @ + 1,
                                     !.log = @ \o <<[op |-> "converted", i |-> cache.i],
                                                     [op |-> "written", i |-> cache.i,
                                                      text |-> current_hash]>>]
    /\ UNCHANGED <<inputs, pc, manifestLocals, parked, mainRun, roundTrip>>

\* line 47: the loop is over
ConvertReturn ==
    /\ cache # <<>>
    /\ cache.at = "loop"
    /\ cache.i > Len(result.manifest.tiles)
    /\ cache' = [cache EXCEPT !.at = "returned"]
    /\ UNCHANGED <<inputs, pc, manifestLocals, parked, mainRun, roundTrip>>

\* the placements of payloads that exist and of references
ConvertPlacements ==
    {s \in UriPlacements : \A i \in 1..Len(s) : s[i][2].k \in {"b1", "b2", "ref"}}

InitConvert ==
    /\ InputTiles(ConvertPlacements, NoTransforms)
    /\ Started
    /\ parked = <<>>
    /\ mainRun = <<>>
    /\ roundTrip = <<>>
    /\ cache = NotConverted

NextConvert ==
    \/ LoadRoot \/ Pop \/ Body \/ Resume \/ Finish
    \/ ConvertCall
    \/ ConvertTile
    \/ ConvertReturn

SpecConvert == InitConvert /\ [][NextConvert]_vars

(***************************************************************************)
(* What the properties below speak about.                                  *)
(***************************************************************************)
\* the URIs tile t lists, "content" first
ListedUris(t) == tileContent[t] \o tileContents[t]

\* the "children" field of t is absent, null or an empty list
ChildrenAbsentOrEmpty(t) == tileChildren[t] = NullV \/ tileChildren[t] = ListV(<<>>)

PayloadUris(t) == {i \in 1..Len(ListedUris(t)) : ListedUris(t)[i].ext = "b3dm"}

DocumentUris(t) == {i \in 1..Len(ListedUris(t)) : ListedUris(t)[i].ext = "json"}

\* the path URI number i of the tile of visit v names, resolved against the
\* directory of the document the tile stands in
RECURSIVE DocumentRootOf(_)
DocumentRootOf(t) ==
    IF \E p \in Tiles : t \in ChildTiles(p)
    THEN DocumentRootOf(CHOOSE p \in Tiles : t \in ChildTiles(p))
    ELSE t

NamedPath(t, i) ==
    [dir |-> DirOf(DocumentRootOf(t)) + ListedUris(t)[i].rel,
     name |-> ListedUris(t)[i].name, ext |-> ListedUris(t)[i].ext]

\* the loop body of build_manifest has run (to its end or to a raise) for visit v
BodyRan(v) == v < Len(visits) \/ pc # "body"

\* the walker has resumed after visit v and drained its queue without raising
Resumed(v) == v < Len(visits) \/ pc \in {"pop", "done"}

\* the records of the manifest that carry the id of visit v
RecordsOf(v) == {a \in 1..Len(tiles) : tiles[a].tile_id = visits[v].id}

RECURSIVE DescendsFrom(_, _)
DescendsFrom(k, i) ==
    \/ k = i
    \/ k > i /\ visits[k].from # 0 /\ DescendsFrom(visits[k].from, i)

\* the place of a visit among the visits pushed by the same tile: the roots of
\* referenced documents in the order of their URIs, then the children in
\* their listed order
Rank(v) == IF visits[v].kind = "ref" THEN visits[v].pos ELSE 1000 + visits[v].pos

(***************************************************************************)
(* C1: in the manifest returned no two records carry the same tile_id, and *)
(* every visited leaf tile that lists .b3dm URIs has exactly one record.   *)
(* The code appends one record for each .b3dm URI, all with the id of the  *)
(* tile: the statement is violated by a leaf that lists two.               *)
(***************************************************************************)
C1_OneRecordPerLeafTile ==
    result # <<>> =>
        /\ \A a, b \in 1..Len(result.manifest.tiles) :
              a # b => result.manifest.tiles[a].tile_id # result.manifest.tiles[b].tile_id
        /\ \A v \in 1..Len(visits) :
              ChildrenAbsentOrEmpty(visits[v].tile) /\ PayloadUris(visits[v].tile) # {}
                  => Cardinality(RecordsOf(v)) = 1

(***************************************************************************)
(* C2: the visits are in pre-order with eager reference expansion: a tile  *)
(* is visited before the tiles it pushed; every visit between a tile and a *)
(* tile it pushed descends from the former; of two tiles pushed by the     *)
(* same tile, the root of the document listed first, or the child listed   *)
(* first, is visited first, and roots of documents come before children.   *)
(* The records of the manifest are in the order of the visits.             *)
(***************************************************************************)
C2_PreOrderEagerExpansion ==
    /\ \A j \in 1..Len(visits) :
          IF j = 1 THEN visits[j].from = 0 /\ visits[j].kind = "root"
          ELSE /\ visits[j].from \in 1..(j - 1)
               /\ \A k \in (visits[j].from + 1)..(j - 1) : DescendsFrom(k, visits[j].from)
    /\ \A j1, j2 \in 1..Len(visits) :
          visits[j1].from = visits[j2].from /\ Rank(j1) < Rank(j2) => j1 < j2
    /\ \A a, b \in 1..Len(tiles) :
          a < b => \E v, w \in 1..Len(visits) :
                      /\ v <= w
                      /\ visits[v].id = tiles[a].tile_id
                      /\ visits[w].id = tiles[b].tile_id

\* a run that completed, in which a tile referenced a document and the root of
\* that document was visited before a sibling of the tile that was on the stack
C2_Witness ==
    /\ pc = "done"
    /\ \E i, j, k \in 1..Len(visits) :
          /\ visits[j].kind = "ref" /\ visits[j].from = i
          /\ visits[k].kind = "child" /\ visits[k].from = visits[i].from
          /\ i < j /\ j < k
          /\ Len(tiles) >= 2

LocalMatrix(t) ==
    IF tileTransform[t] = NullV
    THEN <<<<1, 0, 0, 0>>, <<0, 1, 0, 0>>, <<0, 0, 1, 0>>, <<0, 0, 0, 1>>>>
    ELSE [i \in 1..4 |-> [j \in 1..4 |-> tileTransform[t].val[4 * (j - 1) + i]]]

RECURSIVE RowByColumn(_, _, _, _, _)
RowByColumn(a, b, i, j, k) ==
    IF k = 0 THEN 0 ELSE a[i][k] * b[k][j] + RowByColumn(a, b, i, j, k - 1)

Product(a, b) == [i \in 1..4 |-> [j \in 1..4 |-> RowByColumn(a, b, i, j, 4)]]

\* the element of a one-element set
TheOne(S) == CHOOSE x \in S : TRUE

\* (the product up to the parent is bound to a value before it is multiplied)
RECURSIVE PathProduct(_)
PathProduct(v) ==
    IF visits[v].from = 0 THEN LocalMatrix(visits[v].tile)
    ELSE TheOne({Product(p, LocalMatrix(visits[v].tile)) :
                    p \in {PathProduct(visits[v].from)}})

(***************************************************************************)
(* C3: the transform yielded for a visited tile is the matrix product, in  *)
(* path order, of the local transforms of the tiles from the root tile of  *)
(* the root document down to it; the root of a referenced document         *)
(* continues the product of the tile that referenced it.                   *)
(***************************************************************************)
C3_AbsoluteTransformIsPathProduct ==
    \A v \in 1..Len(visits) : visits[v].full = PathProduct(v)

\* the root of a referenced document was visited under a transform that does
\* not commute with its own
C3_Witness ==
    \E v \in 1..Len(visits) :
        /\ visits[v].kind = "ref"
        /\ Product(PathProduct(visits[v].from), LocalMatrix(visits[v].tile))
              # Product(LocalMatrix(visits[v].tile), PathProduct(visits[v].from))

\* the document paths the tile of visit v refers to from a leaf
ReferencedPaths(v) ==
    IF ChildrenAbsentOrEmpty(visits[v].tile)
    THEN {NamedPath(visits[v].tile, i) : i \in DocumentUris(visits[v].tile)}
    ELSE {}

(***************************************************************************)
(* C4: each resolved document path is loaded and expanded by the walker at *)
(* most once.  The reference that loads it is one of the first visited     *)
(* tile that references the path; every other reference to it is skipped:  *)
(* it pushes no root and takes no id, so that a run that completes has     *)
(* visited one document root for each path loaded and counter + 1 tiles.   *)
(***************************************************************************)
C4_ReferenceExpandedOnce ==
    /\ \A a, b \in 1..Len(loads) : a # b => loads[a].path # loads[b].path
    /\ \A a \in 1..Len(loads) :
          /\ loads[a].path \in ReferencedPaths(loads[a].from)
          /\ \A v \in 1..(loads[a].from - 1) : loads[a].path \notin ReferencedPaths(v)
    /\ \A v, w \in 1..Len(visits) :
          visits[v].kind = "ref" /\ visits[w].kind = "ref" /\ v # w
              => DocPath(visits[v].tile) # DocPath(visits[w].tile)
    /\ pc = "done" =>
          /\ Cardinality({v \in 1..Len(visits) : visits[v].kind = "ref"}) = Len(loads)
          /\ Len(visits) = counter + 1
          /\ \A v \in 1..Len(visits) : ReferencedPaths(v) \subseteq visited_tilesets

\* a run that completed although two visited tiles referenced the same path
C4_Witness ==
    /\ pc = "done"
    /\ \E v, w \in 1..Len(visits) :
          v < w /\ ReferencedPaths(v) \cap ReferencedPaths(w) # {}

(***************************************************************************)
(* C5: a record belongs to a visited tile that is a leaf (its "children"   *)
(* is absent, null or empty) and lists a .b3dm URI.  A leaf that lists no  *)
(* URI gives no record and raises nothing; a tile with children gives no   *)
(* record and, once the walker has resumed, each of its children has been  *)
(* pushed: it is on the stack or has been visited.                         *)
(***************************************************************************)
C5_OnlyLeavesWithContentAreRecorded ==
    /\ \A a \in 1..Len(tiles) :
          \E v \in 1..Len(visits) :
              /\ visits[v].id = tiles[a].tile_id
              /\ ChildrenAbsentOrEmpty(visits[v].tile)
              /\ PayloadUris(visits[v].tile) # {}
    /\ \A v \in 1..Len(visits) :
          /\ ~ChildrenAbsentOrEmpty(visits[v].tile) => RecordsOf(v) = {}
          /\ ListedUris(visits[v].tile) = <<>> /\ ChildrenAbsentOrEmpty(visits[v].tile)
                => /\ RecordsOf(v) = {}
                   /\ v = Len(visits) => errAt \notin {"body", "resume"}
          /\ Resumed(v) =>
                \A c \in ChildTiles(visits[v].tile) :
                    \/ \E w \in 1..Len(visits) :
                          visits[w].from = v /\ visits[w].kind = "child"
                             /\ visits[w].tile = c
                    \/ \E k \in 1..Len(stack) :
                          stack[k].from = v /\ stack[k].kind = "child"
                             /\ stack[k].tile = c
    /\ pc = "done" => stack = <<>>

\* a run that completed after visiting a tile with children that lists a .b3dm
\* URI, and a leaf that lists none
C5_Witness ==
    /\ pc = "done"
    /\ \E v, w \in 1..Len(visits) :
          /\ ~ChildrenAbsentOrEmpty(visits[v].tile) /\ PayloadUris(visits[v].tile) # {}
          /\ ChildrenAbsentOrEmpty(visits[w].tile) /\ ListedUris(visits[w].tile) = <<>>

\* the payload files on disk are 1.b3dm and 2.b3dm
NamesMissingFile(t) ==
    \E i \in PayloadUris(t) : ListedUris(t)[i].name \notin {1, 2}

(***************************************************************************)
(* C6: once the loop body has run for a leaf tile one of whose .b3dm URIs  *)
(* names a file that does not exist, the run has ended with the error      *)
(* raised at that tile: no tile is visited after it, no ManifestResult is  *)
(* returned and no manifest is written, whatever was collected before.     *)
(***************************************************************************)
C6_MissingPayloadAborts ==
    \A v \in 1..Len(visits) :
        BodyRan(v) /\ ChildrenAbsentOrEmpty(visits[v].tile)
                /\ NamesMissingFile(visits[v].tile)
            => /\ pc = "error"
               /\ err = "ValueError"
               /\ errAt = "body"
               /\ v = Len(visits)
               /\ result = <<>>
               /\ written = <<>>

\* the run was aborted by a missing payload after records had been collected
C6_Witness ==
    /\ pc = "error"
    /\ errAt = "body"
    /\ tiles # <<>>
    /\ NamesMissingFile(visits[Len(visits)].tile)
    /\ \E a \in 1..Len(tiles) : tiles[a].tile_id # visits[Len(visits)].id

(***************************************************************************)
(* C7: a manifest returned or written holds at least one tile record.      *)
(* The code tests root_full, which is set by the first tile visited, and   *)
(* so returns and writes a manifest with an empty tile list.               *)
(***************************************************************************)
C7_EmptyManifestRejected ==
    /\ result # <<>> => Len(result.manifest.tiles) > 0
    /\ \A a \in 1..Len(written) : Len(written[a].tiles) > 0

Usable(field, n) == field.kind = "list" /\ Len(field.val) = n

\* the affine image of the point whose coordinates start the list l
Moved(m, l) ==
    [i \in 1..3 |-> m[i][1] * l[1] + m[i][2] * l[2] + m[i][3] * l[3] + m[i][4]]

(***************************************************************************)
(* C8: the origin strategy follows the strict priority region (a list of   *)
(* 6), sphere (a list of 4), box (a list of 12), root.  For region the     *)
(* point is the midpoint of the bounds at the minimum height, whatever the *)
(* root's transform; for sphere and box it is the center moved by the      *)
(* root's absolute transform; for root it is the translation column of     *)
(* that transform.                                                         *)
(***************************************************************************)
C8_OriginPriority ==
    pc = "done" /\ result # <<>> =>
        LET bv == boundingVolume
            origin == result.manifest.origin
            region == bv.isDict /\ Usable(bv.region, 6)
            sphere == bv.isDict /\ Usable(bv.sphere, 4)
            box == bv.isDict /\ Usable(bv.box, 12)
        IN  /\ origin.strategy =
                  IF region THEN "region" ELSE IF sphere THEN "sphere"
                  ELSE IF box THEN "box" ELSE "root"
            /\ region =>
                  /\ origin.lla =
                        <<[fn |-> "degrees",
                           arg |-> [num |-> bv.region.val[2] + bv.region.val[4], den |-> 2]],
                          [fn |-> "degrees",
                           arg |-> [num |-> bv.region.val[1] + bv.region.val[3], den |-> 2]],
                          bv.region.val[5]>>
                  /\ origin.ecef = [fn |-> "lla_degrees_to_ecef", arg |-> origin.lla]
            /\ ~region /\ sphere => origin.ecef = Moved(root_full, bv.sphere.val)
            /\ ~region /\ ~sphere /\ box => origin.ecef = Moved(root_full, bv.box.val)
            /\ ~region /\ ~sphere /\ ~box =>
                  origin.ecef = <<root_full[1][4], root_full[2][4], root_full[3][4]>>
            /\ ~region => origin.lla = [fn |-> "ecef_to_lla_degrees", arg |-> origin.ecef]
            /\ result.root_ecef = origin.ecef

\* the origin of a root tile that has a region and a sphere, under a root
\* transform that is not the identity
C8_Witness ==
    /\ pc = "done"
    /\ result # <<>>
    /\ Usable(boundingVolume.region, 6)
    /\ Usable(boundingVolume.sphere, 4)
    /\ result.manifest.origin.strategy = "region"
    /\ root_full # Identity4

(***************************************************************************)
(* C9: once the walker has resumed after a visited tile, every document    *)
(* that the tile references has been expanded, whether the tile is a leaf  *)
(* or has children.  The code looks at the URIs of leaf tiles only: the    *)
(* statement is violated by a tile with children that references a         *)
(* document.                                                               *)
(***************************************************************************)
C9_ReferenceOfAnyTileExpanded ==
    \A v \in 1..Len(visits) :
        Resumed(v) =>
            \A i \in DocumentUris(visits[v].tile) :
                NamedPath(visits[v].tile, i) \in visited_tilesets

\* the program is one thread that takes its next step whenever it has one
FairSpec == InitReferences /\ [][Next]_vars /\ WF_vars(Next)

(***************************************************************************)
(* C10: every run ends: it completes with the stack and the queue of       *)
(* pending references empty, or it is aborted by an error; also when the   *)
(* references between the documents form a cycle.                          *)
(***************************************************************************)
C10_Terminates ==
    <>(\/ pc = "error"
       \/ pc = "done" /\ stack = <<>> /\ queued_tilesets = <<>>)

\* a run that completed although a visited tile referenced the document of a
\* tile it descends from (its own document included)
C10_Witness ==
    /\ pc = "done"
    /\ \E v, k \in 1..Len(visits) :
          /\ DescendsFrom(v, k)
          /\ DocPath(DocumentRootOf(visits[k].tile)) \in ReferencedPaths(v)
    /\ \E v, k \in 1..Len(visits) :
          /\ DescendsFrom(v, k)
          /\ k > 1
          /\ DocPath(DocumentRootOf(visits[k].tile)) \in ReferencedPaths(v)

(***************************************************************************)
(* C11: no document is expanded twice in one run: no two visits are of the *)
(* root tile of the same document, the root document included, and so no   *)
(* tile is visited twice.  The code never puts the path of the root        *)
(* document into the visited set: the statement is violated by a nested    *)
(* document that references the root document.                             *)
(***************************************************************************)
C11_NoDocumentExpandedTwice ==
    /\ \A v, w \in 1..Len(visits) :
          v # w /\ visits[v].kind \in {"root", "ref"} /\ visits[w].kind \in {"root", "ref"}
              => DocPath(visits[v].tile) # DocPath(visits[w].tile)
    /\ \A v, w \in 1..Len(visits) : v # w => visits[v].tile # visits[w].tile

(***************************************************************************)
(* C12: a tile that the walker yielded has a "transform" that is absent or *)
(* null, and then its absolute transform is that of the frame it continues *)
(* (its local transform is the identity), or a list of 16 numbers; any     *)
(* other value has aborted the run at the pop of the tile.  The code takes *)
(* every falsy value for absent: the statement is violated by a tile whose *)
(* "transform" is an empty list, 0, false or an empty string.              *)
(***************************************************************************)
C12_TransformValidated ==
    \A v \in 1..Len(visits) :
        LET transform == tileTransform[visits[v].tile]
        IN  /\ \/ transform = NullV
               \/ transform.kind = "list" /\ Len(transform.val) = 16
            /\ transform = NullV =>
                  visits[v].full = IF visits[v].from = 0
                                   THEN <<<<1, 0, 0, 0>>, <<0, 1, 0, 0>>,
                                          <<0, 0, 1, 0>>, <<0, 0, 0, 1>>>>
                                   ELSE visits[visits[v].from].full

(***************************************************************************)
(* C13: a run that was aborted by the load of a document, the root         *)
(* document or a referenced one, ended with ValueError, the error that     *)
(* main maps to INVALID_INPUT, and wrote and returned no manifest; and a   *)
(* document that cannot be loaded is the last one the run tried to load.   *)
(* The code lets the FileNotFoundError of a referenced file that does not  *)
(* exist pass: the statement is violated by a reference to such a file.    *)
(***************************************************************************)
C13_LoadFailureIsInvalidDocument ==
    /\ pc = "error" /\ errAt \in {"load", "resume"} =>
          /\ err = "ValueError"
          /\ written = <<>>
          /\ result = <<>>
    /\ \A a \in 1..Len(loads) :
          load_tileset(loads[a].path).err # "none" => pc = "error" /\ a = Len(loads)

\* the directory of the document tile t stands in
OwnDirectory(t) == DirOf(DocumentRootOf(t))

(***************************************************************************)
(* C14: every URI is resolved against the directory of the document that   *)
(* holds the tile that carries it.  Each frame, yielded or on the stack,   *)
(* has the directory of the document of its tile as base directory: a      *)
(* child has that of the tile that pushed it, the root of a referenced     *)
(* document has the directory of the path loaded.  The path of a record    *)
(* and the path of a queued or loaded reference is the URI of its tile     *)
(* resolved against that directory.                                        *)
(***************************************************************************)
C14_UrisResolvedAgainstOwnDocument ==
    /\ \A v \in 1..Len(visits) :
          /\ visits[v].base_dir = OwnDirectory(visits[v].tile)
          /\ visits[v].kind = "child" => visits[v].base_dir = visits[visits[v].from].base_dir
          /\ visits[v].kind = "ref" =>
                \E a \in 1..Len(loads) :
                    /\ loads[a].from = visits[v].from
                    /\ loads[a].path = DocPath(visits[v].tile)
                    /\ visits[v].base_dir = loads[a].path.dir
    /\ \A k \in 1..Len(stack) : stack[k].base_dir = OwnDirectory(stack[k].tile)
    /\ \A a \in 1..Len(tiles) :
          \E i \in PayloadUris(tiles[a].node) :
              tiles[a].b3dm_path = NamedPath(tiles[a].node, i)
    /\ \A k \in 1..Len(queued_tilesets) :
          \E i \in DocumentUris(cur.tile) :
              queued_tilesets[k].path = NamedPath(cur.tile, i)
    /\ \A a \in 1..Len(loads) :
          \E i \in DocumentUris(visits[loads[a].from].tile) :
              loads[a].path = NamedPath(visits[loads[a].from].tile, i)

\* a run that completed after it recorded a payload of a referenced document
\* that lies in another directory than the document that referenced it, and
\* a payload of a child tile
C14_Witness ==
    /\ pc = "done"
    /\ \E v \in 1..Len(visits), a \in 1..Len(tiles) :
          /\ visits[v].kind = "ref"
          /\ visits[v].base_dir # visits[visits[v].from].base_dir
          /\ tiles[a].tile_id = visits[v].id
          /\ tiles[a].b3dm_path.dir = visits[v].base_dir

(***************************************************************************)
(* C15: the counter and the visited set belong to one call.  When two      *)
(* calls of build_manifest over the same documents have both ended, one    *)
(* after the other or interleaved, they ended alike, recorded the same     *)
(* tile_ids, payload paths and transforms in the same order, visited the   *)
(* same tiles under the same ids and loaded the same documents: a document *)
(* loaded by one call was not taken for visited by the other.              *)
(***************************************************************************)
C15_CallsAreIndependent ==
    parked # <<>> /\ pc \in {"done", "error"} /\ parked.pc \in {"done", "error"} =>
        /\ pc = parked.pc
        /\ err = parked.err
        /\ tiles = parked.tiles
        /\ visits = parked.visits
        /\ loads = parked.loads
        /\ counter = parked.walker.counter
        /\ visited_tilesets = parked.walker.visited_tilesets

\* two calls that were under way at the same time have both completed, each
\* with a record and a loaded document
C15_Witness ==
    /\ parked # <<>>
    /\ pc = "done"
    /\ parked.pc = "done"
    /\ parked.overlapped
    /\ tiles # <<>>
    /\ loads # <<>>
    /\ Len(visits) >= 2

(***************************************************************************)
(* C16: once the walker has resumed after a visited tile without raising,  *)
(* the "children" of the tile is absent, null or a list of tile objects:   *)
(* any other shape has aborted the run.  The code pushes nothing for a     *)
(* value that is no list and skips the entries that are no tile objects:   *)
(* the statement is violated by a tile whose "children" is a number, or a  *)
(* list with an entry that is no object.                                   *)
(***************************************************************************)
C16_MalformedChildrenAbort ==
    \A v \in 1..Len(visits) :
        Resumed(v) =>
            LET children == tileChildren[visits[v].tile]
            IN  \/ children = NullV
                \/ /\ children.kind = "list"
                   /\ \A i \in 1..Len(children.val) : children.val[i] # 0

\* the distance of two lengths
Apart(x, y) == IF x >= y THEN x - y ELSE y - x

(***************************************************************************)
(* C17: a point taken through ecef_to_lla_degrees and back through         *)
(* lla_degrees_to_ecef comes back within 1e-6 m in each component.  The    *)
(* lengths of the model are whole centimetres, rounded by less than one:   *)
(* components that are more than 2 cm apart are more than 1e-6 m apart.    *)
(* The code computes the altitude as p / cos(lat) - n, which on the polar  *)
(* axis is -n: the statement is violated by the poles.                     *)
(***************************************************************************)
C17_RoundTripWithinTolerance ==
    roundTrip # <<>> /\ roundTrip.back # <<>> =>
        \A i \in 1..3 : Apart(roundTrip.back[i], roundTrip.ecef[i]) <= 2

\* the frames that have been made: those yielded, then those on the stack
Frames == [i \in 1..(Len(visits) + Len(stack)) |->
              IF i <= Len(visits) THEN visits[i] ELSE stack[i - Len(visits)]]

\* the value of the counter an identifier was made from
NumberOf(id) == CHOOSE n \in 0..counter : id = ZeroPad(Digits(n), 6)

(***************************************************************************)
(* C18: the root tile of the root document is visited as tile_000000 and   *)
(* every other frame takes the next value of one counter: at any time the  *)
(* identifiers of the frames made so far are pairwise distinct and are     *)
(* exactly those of 0 .. counter, and a frame's identifier is greater than *)
(* that of the tile that pushed it.  In a run that completed the tiles     *)
(* visited carry exactly tile_000000 .. tile_N, N the counter.             *)
(***************************************************************************)
C18_IdsFromOneCounter ==
    /\ Len(visits) >= 1 =>
          /\ visits[1].id = <<0, 0, 0, 0, 0, 0>>
          /\ visits[1].kind = "root"
    /\ \A i, j \in 1..Len(Frames) : i # j => Frames[i].id # Frames[j].id
    /\ pc \notin {"load", "error"} =>
          {Frames[i].id : i \in 1..Len(Frames)} = {ZeroPad(Digits(n), 6) : n \in 0..counter}
    /\ \A i \in 1..Len(Frames) :
          Frames[i].from # 0 =>
              NumberOf(Frames[i].id) > NumberOf(visits[Frames[i].from].id)
    /\ pc = "done" =>
          /\ {visits[v].id : v \in 1..Len(visits)} = {ZeroPad(Digits(n), 6) : n \in 0..counter}
          /\ Len(visits) = counter + 1

\* a run that completed after it visited children and the root of a referenced
\* document, in another order than that of their identifiers
C18_Witness ==
    /\ pc = "done"
    /\ counter >= 3
    /\ \E v, w \in 1..Len(visits) :
          /\ visits[v].kind = "child"
          /\ visits[w].kind = "ref"
    /\ \E v, w \in 1..Len(visits) : v < w /\ NumberOf(visits[v].id) > NumberOf(visits[w].id)

(***************************************************************************)
(* C19: the references queued while a tile is processed are resolved       *)
(* before the next frame is popped: the queue is empty whenever the walker *)
(* is about to pop and when the traversal has ended; once the walker has   *)
(* resumed after a tile, each document the tile queued has been loaded by  *)
(* that tile or was visited before; the loads are in the order of the      *)
(* visits that queued them.                                                *)
(***************************************************************************)
C19_QueueDrainedBeforePop ==
    /\ pc \in {"pop", "done"} => queued_tilesets = <<>>
    /\ pc = "body" => queued_tilesets = <<>>
    /\ \A v \in 1..Len(visits) :
          Resumed(v) =>
              \A path \in ReferencedPaths(v) :
                  /\ path \in visited_tilesets
                  /\ \E a \in 1..Len(loads) : loads[a].path = path /\ loads[a].from <= v
    /\ \A a, b \in 1..Len(loads) : a < b => loads[a].from <= loads[b].from
    /\ \A a \in 1..Len(loads) : loads[a].from <= Len(visits)

\* a run that completed in which a leaf root tile queued a reference when the
\* stack was empty, and the last tile visited queued a reference
C19_Witness ==
    /\ pc = "done"
    /\ Len(visits) >= 2
    /\ ChildrenAbsentOrEmpty(visits[1].tile)
    /\ visits[2].kind = "ref"
    /\ ReferencedPaths(Len(visits)) # {}

\* the phases of main in their order
PhaseOrder ==
    <<"build_manifest", "convert_manifest_tiles", "export_collada", "qc_dae",
      "write_kml", "package_kmz">>

(***************************************************************************)
(* C20: main starts the phases in the fixed order build_manifest,          *)
(* convert_manifest_tiles, export_collada, qc_dae, write_kml, package_kmz. *)
(* A phase that failed is qc_dae or the last phase started (or the setup,  *)
(* before any phase).  A failure of qc_dae is logged as a warning and the  *)
(* run goes on: no exception of qc_dae leaves main.  main returns SUCCESS  *)
(* only when all phases were started and none but qc_dae failed, and the   *)
(* temporary directory is removed only then.  The code catches ValueError, *)
(* FileNotFoundError and RuntimeError around qc_dae: the statement is      *)
(* violated by the ParseError of a model.dae that is not well-formed.      *)
(***************************************************************************)
C20_PhasesInOrder ==
    mainRun # <<>> =>
        /\ Len(mainRun.started) <= Len(PhaseOrder)
        /\ mainRun.started = SubSeq(PhaseOrder, 1, Len(mainRun.started))
        /\ mainRun.started = <<>> => pc = "uncalled"
        /\ \A i \in 1..Len(mainRun.failed) :
              \/ mainRun.failed[i] = "qc_dae"
              \/ /\ i = Len(mainRun.failed)
                 /\ mainRun.at \in {"returned", "raised"}
                 /\ IF mainRun.started = <<>> THEN mainRun.failed[i] = "setup"
                    ELSE mainRun.failed[i] = mainRun.started[Len(mainRun.started)]
        /\ \A i \in 1..Len(mainRun.failed) :
              mainRun.failed[i] = "qc_dae" =>
                  /\ mainRun.warned
                  /\ mainRun.at = "raised" => i < Len(mainRun.failed)
        /\ mainRun.returned = <<SUCCESS>> =>
              /\ mainRun.started = PhaseOrder
              /\ \A i \in 1..Len(mainRun.failed) : mainRun.failed[i] = "qc_dae"
              /\ pc = "done"
        /\ mainRun.temp_dir = "removed" => mainRun.returned = <<SUCCESS>>

\* the digest in the hash file of tile_id, as _is_cache_valid reads it (<<>>
\* when there is no file)
StoredHash(tile_id) ==
    IF cache.hashes[tile_id] = <<>> THEN <<>> ELSE <<strip(cache.hashes[tile_id][1])>>

\* C21: when convert_manifest_tiles has returned without error, the hash
\* stored under the tile_id of every record of the manifest is the SHA-256
\* of the b3dm file of that record; the converter was skipped for a record
\* only when its glb file existed and the stored hash was the current hash;
\* and a hash was written only after the converter had succeeded for that
\* record.
C21_CacheHoldsHashOfEveryRecord ==
    cache # <<>> =>
        /\ cache.at = "returned" =>
              \A k \in 1..Len(result.manifest.tiles) :
                  LET tile == result.manifest.tiles[k]
                  IN  StoredHash(tile.tile_id) = <<hash_file(cache.sha, tile.b3dm_path)>>
        /\ \A j \in 1..Len(cache.log) :
              cache.log[j].op = "skip" =>
                  /\ cache.log[j].glb
                  /\ cache.log[j].stored # <<>>
                  /\ strip(cache.log[j].stored[1]) = cache.log[j].current
        /\ \A j \in 1..Len(cache.log) :
              cache.log[j].op = "written" =>
                  \E h \in 1..(j - 1) :
                      cache.log[h].op = "converted" /\ cache.log[h].i = cache.log[j].i

====
